---- MODULE Spec2Model ----
(***************************************************************************)
(* Model of src/src/providers/LogsView.ts: the registry of WebDav clients  *)
(* (LogsView.webdavClients) driven by the higher-order stream dwConfig$$   *)
(* of configuration sources, the refresh notifications and the filter.     *)
(***************************************************************************)
EXTENDS Naturals, Sequences, FiniteSets, TLC

\* ---------------------------------------------------------------- bounds
NumSources == 2      \* configuration sources the outer stream can deliver
MaxEmit == 3         \* configuration files the sources announce in one run
MaxDigits == 2       \* digits in one position of a qualifier
MaxWords == 3        \* words in a displayname
MaxText == 3         \* pieces in a log text
MaxListing == 2      \* response elements in a directory listing

Sources == 1 .. NumSources
Slots == {1, 2}      \* two calls of the view's operations can be in flight together
Idle == [state |-> "idle"]
Hostnames == {<<"d", "e", "v", ".", "h">>, <<"s", "t", "g", ".", "h">>}
Roots == {"/Sites/Logs"}
\* Text is a sequence of characters; undefined is no text at all.
Undefined == <<"undefined">>
Filters == {<<>>, <<"e", "r", "r", "o", "r">>, <<"E", "r", "r", "o", "r">>}

\* what readConfigFile yields: the fields of the options the view reads
DavOptions == [hostname : Hostnames, root : Roots]

VARIABLES
    outer,               \* dwConfig$$: "active" or "completed"
    source,              \* per dwConfig$: "unseen", "subscribed", "ended", "errored", "unsubscribed"
    emitted,             \* configuration files announced so far, all sources together
    reading,             \* per dwConfig$: readConfigFile calls in flight
    inner,               \* per dwConfig$: the subscriptions to the Observable of lines 110-125
    webdavClients,       \* LogsView.webdavClients, a Map as its set of entries
    logsFileNameFilter,  \* LogsView._logsFileNameFilter
    fired,               \* _onDidChangeTreeData.fire() calls made by the handler that ran last
    ops,                 \* per slot: a call of getChildren, openLog or cleanLog, in flight or settled
    last                 \* the handler that ran last, with the source it ran for if any

vars == <<outer, source, emitted, reading, inner, webdavClients,
          logsFileNameFilter, fired, ops, last>>

\* ------------------------------------------------------------- Map<K, V>
MapHas(m, k) == \E e \in m : e.key = k
MapGet(m, k) == (CHOOSE e \in m : e.key = k).client
MapSet(m, k, v) == {e \in m : e.key # k} \cup {[key |-> k, client |-> v]}
MapDelete(m, k) == {e \in m : e.key # k}
MapKeys(m) == {e.key : e \in m}

\* new WebDav(davOptins); config.version = ''; folder = 'Logs'.  origin stands
\* for the identity of the object: the resolution that constructed it, as the
\* source and the position of the resolution among those of the source.
NewWebDav(davOptins, id) ==
    [config |-> [hostname |-> davOptins.hostname, root |-> davOptins.root, version |-> ""],
     folder |-> "Logs",
     origin |-> id]

\* --------------------------------------------- the Observable of 110-125
\* st is the part of the view the closures touch: [clients, fired], fired
\* counting the refresh() calls of the running handler
ShouldCreateAlways(clients, davOptins) == TRUE
ShouldCreate(clients, davOptins) == ~MapHas(clients, davOptins.hostname)

SubscribeNoRefresh(st, davOptins, id) ==
    IF ShouldCreate(st.clients, davOptins)
    THEN [clients |-> MapSet(st.clients, davOptins.hostname, NewWebDav(davOptins, id)),
          fired |-> st.fired]
    ELSE st
\* the subscribe function, lines 110-117
Subscribe(st, davOptins, id) ==
    IF ShouldCreate(st.clients, davOptins)
    THEN [clients |-> MapSet(st.clients, davOptins.hostname, NewWebDav(davOptins, id)),
          fired |-> st.fired + 1]
    ELSE st

CleanupNoDelete(st, davOptins) ==
    IF MapHas(st.clients, davOptins.hostname)
    THEN [clients |-> st.clients, fired |-> st.fired + 1]
    ELSE st
CleanupClear(st, davOptins) ==
    IF MapHas(st.clients, davOptins.hostname)
    THEN [clients |-> {}, fired |-> st.fired + 1]
    ELSE st
CleanupNoRefresh(st, davOptins) ==
    IF MapHas(st.clients, davOptins.hostname)
    THEN [clients |-> MapDelete(st.clients, davOptins.hostname), fired |-> st.fired]
    ELSE st
\* the teardown function, lines 119-124
Cleanup(st, davOptins) ==
    IF MapHas(st.clients, davOptins.hostname)
    THEN [clients |-> MapDelete(st.clients, davOptins.hostname), fired |-> st.fired + 1]
    ELSE st

\* A subscription runs its teardown when it is unsubscribed, unless it is closed.
IsClosedNever(sub) == FALSE
IsClosed(sub) == sub.closed

NewInner(davOptins) == [davOptins |-> davOptins, closed |-> FALSE, runs |-> 0]

\* Unsubscribing the chain of one dwConfig$ (takeUntil, line 127): every inner
\* subscription that is still open runs its teardown, in subscription order.
UnsubscribeFirstOnly(subs, i, st) ==
    IF subs = <<>> \/ subs[1].closed
    THEN [subs |-> subs, clients |-> st.clients, fired |-> st.fired]
    ELSE LET r == Cleanup(st, subs[1].davOptins)
         IN [subs |-> [subs EXCEPT ![1] = [@ EXCEPT !.closed = TRUE, !.runs = @ + 1]],
             clients |-> r.clients, fired |-> r.fired]
RECURSIVE UnsubscribeFrom(_, _, _)
UnsubscribeFrom(subs, i, st) ==
    IF i > Len(subs)
    THEN [subs |-> subs, clients |-> st.clients, fired |-> st.fired]
    ELSE IF IsClosed(subs[i])
         THEN UnsubscribeFrom(subs, i + 1, st)
         ELSE UnsubscribeFrom(
                  [subs EXCEPT ![i] = [@ EXCEPT !.closed = TRUE, !.runs = @ + 1]],
                  i + 1,
                  Cleanup(st, subs[i].davOptins))

Unsubscribe(subs, st) == UnsubscribeFrom(subs, 1, st)

\* All the sources in ss unsubscribed one after the other, lowest first.
RECURSIVE UnsubscribeAll(_, _, _)
UnsubscribeAll(ss, subsOf, st) ==
    IF ss = {}
    THEN [inner |-> subsOf, clients |-> st.clients, fired |-> st.fired]
    ELSE LET s == CHOOSE x \in ss : \A y \in ss : x <= y
             r == Unsubscribe(subsOf[s], st)
         IN UnsubscribeAll(ss \ {s}, [subsOf EXCEPT ![s] = r.subs],
                           [clients |-> r.clients, fired |-> r.fired])

\* ------------------------------------------------------------------ Init
Init ==
    /\ outer = "active"
    /\ source = [s \in Sources |-> "unseen"]
    /\ emitted = 0
    /\ reading = [s \in Sources |-> 0]
    /\ inner = [s \in Sources |-> <<>>]
    /\ webdavClients = {}
    /\ logsFileNameFilter = <<>>
    /\ fired = 0
    /\ ops = [sl \in Slots |-> Idle]
    /\ last = [op |-> "init"]

\* --------------------------------------------------------------- actions
\* dwConfig$$ delivers a source and the mapped chain of lines 102-128 is subscribed.
SourceAppears(s) ==
    /\ outer = "active"
    /\ source[s] = "unseen"
    /\ source' = [source EXCEPT ![s] = "subscribed"]
    /\ fired' = 0
    /\ last' = [op |-> "appear", src |-> s]
    /\ UNCHANGED <<ops, outer, emitted, reading, inner, webdavClients, logsFileNameFilter>>

\* dwConfig$ emits the Uri of a configuration file: readConfigFile starts (106-108).
SourceEmits(s) ==
    /\ source[s] = "subscribed"
    /\ emitted < MaxEmit
    /\ emitted' = emitted + 1
    /\ reading' = [reading EXCEPT ![s] = @ + 1]
    /\ fired' = 0
    /\ last' = [op |-> "emit", src |-> s]
    /\ UNCHANGED <<ops, outer, source, inner, webdavClients, logsFileNameFilter>>

\* readConfigFile yields davOptins: the Observable of 110-125 is subscribed.
ConfigResolved(s, davOptins) ==
    /\ source[s] = "subscribed"
    /\ reading[s] > 0
    /\ LET r == Subscribe([clients |-> webdavClients, fired |-> 0], davOptins,
                           [src |-> s, n |-> Len(inner[s]) + 1])
       IN /\ webdavClients' = r.clients
          /\ fired' = r.fired
    /\ reading' = [reading EXCEPT ![s] = @ - 1]
    /\ inner' = [inner EXCEPT ![s] = Append(@, NewInner(davOptins))]
    /\ last' = [op |-> "resolve", src |-> s]
    /\ UNCHANGED <<ops, outer, source, emitted, logsFileNameFilter>>

\* dwConfig$ completes: end$ fires (105) and takeUntil (127) unsubscribes the chain.
SourceEndsKeepsReads(s) ==
    /\ source[s] = "subscribed"
    /\ LET r == Unsubscribe(inner[s], [clients |-> webdavClients, fired |-> 0])
       IN /\ inner' = [inner EXCEPT ![s] = r.subs]
          /\ webdavClients' = r.clients
          /\ fired' = r.fired
    /\ source' = [source EXCEPT ![s] = "ended"]
    /\ last' = [op |-> "end", src |-> s]
    /\ UNCHANGED <<ops, outer, emitted, reading, logsFileNameFilter>>
SourceEnds(s) ==
    /\ source[s] = "subscribed"
    /\ LET r == Unsubscribe(inner[s], [clients |-> webdavClients, fired |-> 0])
       IN /\ inner' = [inner EXCEPT ![s] = r.subs]
          /\ webdavClients' = r.clients
          /\ fired' = r.fired
    /\ source' = [source EXCEPT ![s] = "ended"]
    /\ reading' = [reading EXCEPT ![s] = 0]
    /\ last' = [op |-> "end", src |-> s]
    /\ UNCHANGED <<ops, outer, emitted, logsFileNameFilter>>

\* readConfigFile fails: nothing in the chain of 104-127 handles an error, so
\* the chain ends with it and is unsubscribed like any chain that ends.
ConfigFails(s) ==
    /\ source[s] = "subscribed"
    /\ reading[s] > 0
    /\ LET r == Unsubscribe(inner[s], [clients |-> webdavClients, fired |-> 0])
       IN /\ inner' = [inner EXCEPT ![s] = r.subs]
          /\ webdavClients' = r.clients
          /\ fired' = r.fired
    /\ source' = [source EXCEPT ![s] = "errored"]
    /\ reading' = [reading EXCEPT ![s] = 0]
    /\ last' = [op |-> "fail", src |-> s]
    /\ UNCHANGED <<ops, outer, emitted, logsFileNameFilter>>

\* dwConfig$$ completes: every chain that was subscribed is unsubscribed.
OuterCompletes ==
    /\ outer = "active"
    /\ outer' = "completed"
    /\ LET r == UnsubscribeAll({s \in Sources : source[s] # "unseen"}, inner,
                               [clients |-> webdavClients, fired |-> 0])
       IN /\ inner' = r.inner
          /\ webdavClients' = r.clients
          /\ fired' = r.fired
    /\ source' = [s \in Sources |->
                    IF source[s] = "subscribed" THEN "unsubscribed" ELSE source[s]]
    /\ reading' = [s \in Sources |-> 0]
    /\ last' = [op |-> "outerComplete"]
    /\ UNCHANGED <<ops, emitted, logsFileNameFilter>>

\* LogsView.refresh, as the refresh command calls it (84-86, 135-137)
Refresh ==
    /\ fired' = 1
    /\ last' = [op |-> "refresh"]
    /\ UNCHANGED <<ops, outer, source, emitted, reading, inner, webdavClients, logsFileNameFilter>>

ShowFilterBoxNoRefresh(searchFilter) ==
    /\ logsFileNameFilter' = IF searchFilter # Undefined THEN searchFilter ELSE logsFileNameFilter
    /\ fired' = 0
    /\ last' = [op |-> IF searchFilter # Undefined THEN "filter" ELSE "filterDismissed"]
    /\ UNCHANGED <<ops, outer, source, emitted, reading, inner, webdavClients>>
ShowFilterBoxClears(searchFilter) ==
    /\ logsFileNameFilter' = IF searchFilter # Undefined THEN searchFilter ELSE <<>>
    /\ fired' = 1
    /\ last' = [op |-> IF searchFilter # Undefined THEN "filter" ELSE "filterDismissed"]
    /\ UNCHANGED <<ops, outer, source, emitted, reading, inner, webdavClients>>
\* LogsView.showFilterBox with the input box answering searchFilter (241-252)
ShowFilterBox(searchFilter) ==
    /\ IF searchFilter # Undefined
       THEN /\ logsFileNameFilter' = searchFilter
            /\ fired' = 1
            /\ last' = [op |-> "filter"]
       ELSE /\ logsFileNameFilter' = logsFileNameFilter
            /\ fired' = 0
            /\ last' = [op |-> "filterDismissed"]
    /\ UNCHANGED <<ops, outer, source, emitted, reading, inner, webdavClients>>

Next ==
    \/ \E s \in Sources : SourceAppears(s)
    \/ \E s \in Sources : SourceEmits(s)
    \/ \E s \in Sources : \E d \in DavOptions : ConfigResolved(s, d)
    \/ \E s \in Sources : SourceEnds(s)
    \/ \E s \in Sources : ConfigFails(s)
    \/ OuterCompletes
    \/ Refresh
    \/ \E f \in Filters \cup {Undefined} : ShowFilterBox(f)

Spec == Init /\ [][Next]_vars

\* ------------------------------------------------------------------ text
Digits == {"0", "1", "2", "3", "4", "5", "6", "7", "8", "9"}
\* the letters the case-insensitive pattern of line 57 can meet in upper case
LowerOf ==
    [c \in {"A", "B", "D", "E", "L", "P", "R", "S", "V"} |->
        CASE c = "A" -> "a" [] c = "B" -> "b" [] c = "D" -> "d" [] c = "E" -> "e"
          [] c = "L" -> "l" [] c = "P" -> "p" [] c = "R" -> "r" [] c = "S" -> "s"
          [] c = "V" -> "v"]
LowerKeepsCase(c) == c
Lower(c) == IF c \in DOMAIN LowerOf THEN LowerOf[c] ELSE c

\* String.prototype.includes and endsWith
Includes(s, f) == \E i \in 0 .. Len(s) : i + Len(f) <= Len(s) /\ SubSeq(s, i + 1, i + Len(f)) = f
EndsWith(s, suffix) ==
    Len(suffix) <= Len(s) /\ SubSeq(s, Len(s) - Len(suffix) + 1, Len(s)) = suffix

\* s holds lit, given in lower case, at position i, whatever the case of s
MatchLit(s, i, lit) ==
    /\ i + Len(lit) - 1 <= Len(s)
    /\ \A k \in 1 .. Len(lit) : Lower(s[i + k - 1]) = lit[k]
\* the number of digits s holds from position i on, counted up to 3
DigitRun(s, i) ==
    CHOOSE n \in 0 .. 3 :
        /\ \A k \in 0 .. n - 1 : i + k <= Len(s) /\ s[i + k] \in Digits
        /\ n = 3 \/ i + n > Len(s) \/ s[i + n] \notin Digits

\* /-blade\d{0,2}-\d{0,2}-appserver/i tried at position i: the position after
\* the match, or 0 when there is none.  \d{0,2} is greedy and the character
\* after it must be a dash, so it matches all the digits there, two at most.
MatchQualifier(s, i) ==
    IF ~MatchLit(s, i, <<"-", "b", "l", "a", "d", "e">>) THEN 0
    ELSE LET j == i + 6
             r1 == DigitRun(s, j)
         IN IF r1 > 2 \/ ~MatchLit(s, j + r1, <<"-">>) THEN 0
            ELSE LET k == j + r1 + 1
                     r2 == DigitRun(s, k)
                 IN IF r2 > 2 \/ ~MatchLit(s, k + r2,
                                    <<"-", "a", "p", "p", "s", "e", "r", "v", "e", "r">>)
                    THEN 0
                    ELSE k + r2 + 10

\* name.replace(/-blade\d{0,2}-\d{0,2}-appserver/ig, ''), from position i on
RECURSIVE StripQualifierFrom(_, _)
StripQualifierFrom(s, i) ==
    IF i > Len(s) THEN <<>>
    ELSE IF MatchQualifier(s, i) # 0
         THEN StripQualifierFrom(s, MatchQualifier(s, i))
         ELSE <<s[i]>> \o StripQualifierFrom(s, i + 1)
StripQualifier(s) == StripQualifierFrom(s, 1)

\* ------------------------------------------------------- derived notions
\* hostnames of the subscriptions of s, all of them and the open ones
ResolvedHosts(s) == {inner[s][i].davOptins.hostname : i \in DOMAIN inner[s]}
OpenHosts(s) ==
    {inner[s][i].davOptins.hostname : i \in {j \in DOMAIN inner[s] : ~inner[s][j].closed}}
\* hostname of the configuration s resolved last
LastHost(s) == inner[s][Len(inner[s])].davOptins.hostname
\* the registry holds for h the client that a resolution of s constructed
OwnsClient(s, h) == MapHas(webdavClients, h) /\ MapGet(webdavClients, h).origin.src = s
EntriesOf(m, h) == {e \in m : e.key = h}

\* -------------------------------------------------------- parseResponse
\* A response element as the DOM gives it: each of displayname, href,
\* getlastmodified and getcontentlength is its text, or Undefined when the
\* element is absent.
\* getNodeText: the text of the first child, undefined when absent or empty
GetNodeText(field) == IF field = Undefined \/ field = <<>> THEN Undefined ELSE field

\* String(x)
StringOf(x) == IF x = Undefined THEN <<"u", "n", "d", "e", "f", "i", "n", "e", "d">> ELSE x

\* new Date(text): the texts day1, day2, day3 name three instants in that
\* order, any other text is no date
DateOf(text) ==
    CASE text = <<"day1">> -> [valid |-> TRUE, time |-> 1]
      [] text = <<"day2">> -> [valid |-> TRUE, time |-> 2]
      [] text = <<"day3">> -> [valid |-> TRUE, time |-> 3]
      [] OTHER -> [valid |-> FALSE, time |-> 0]

\* Number(x) for x undefined or a text without blanks, signs or exponents
DigitValue(c) ==
    CASE c = "0" -> 0 [] c = "1" -> 1 [] c = "2" -> 2 [] c = "3" -> 3 [] c = "4" -> 4
      [] c = "5" -> 5 [] c = "6" -> 6 [] c = "7" -> 7 [] c = "8" -> 8 [] c = "9" -> 9
RECURSIVE DecimalValue(_)
DecimalValue(s) ==
    IF s = <<>> THEN 0
    ELSE 10 * DecimalValue(SubSeq(s, 1, Len(s) - 1)) + DigitValue(s[Len(s)])
NumberOf(x) ==
    IF x # Undefined /\ \A i \in DOMAIN x : x[i] \in Digits
    THEN [nan |-> FALSE, n |-> DecimalValue(x)]
    ELSE [nan |-> TRUE, n |-> 0]

DotLog == <<".", "l", "o", "g">>
IsLogEntryNamed(response) == GetNodeText(response.displayname) # Undefined
\* line 51
IsLogEntry(response) ==
    /\ GetNodeText(response.displayname) # Undefined
    /\ EndsWith(GetNodeText(response.displayname), DotLog)
\* new LogStatus(...), lines 52-61
LogStatusOf(response) ==
    [filename |-> StripQualifier(GetNodeText(response.displayname)),
     lastmodifed |-> DateOf(StringOf(GetNodeText(response.getlastmodified))),
     filePath |-> StringOf(GetNodeText(response.href)),
     length |-> NumberOf(GetNodeText(response.getcontentlength))]
\* parseResponse, lines 41-65, on the response elements of the document
ParseResponse(data) ==
    LET kept == SelectSeq(data, IsLogEntry)
    IN [i \in 1 .. Len(kept) |-> LogStatusOf(kept[i])]

\* ------------------------------------------------------------- the tree
IconKeywords ==
    << <<"f", "a", "t", "a", "l">>, <<"e", "r", "r", "o", "r">>, <<"w", "a", "r", "n">>,
       <<"i", "n", "f", "o">>, <<"d", "e", "b", "u", "g">> >>
IconTypeLowest(name) ==
    IF \E k \in DOMAIN IconKeywords : Includes(name, IconKeywords[k])
    THEN IconKeywords[CHOOSE k \in DOMAIN IconKeywords :
                         /\ Includes(name, IconKeywords[k])
                         /\ \A j \in k + 1 .. Len(IconKeywords) : ~Includes(name, IconKeywords[j])]
    ELSE <<"l", "o", "g">>
\* [...].find(t => name.includes(t)) || 'log', lines 289-295
IconType(name) ==
    IF \E k \in DOMAIN IconKeywords : Includes(name, IconKeywords[k])
    THEN IconKeywords[CHOOSE k \in DOMAIN IconKeywords :
                         /\ Includes(name, IconKeywords[k])
                         /\ \A j \in 1 .. k - 1 : ~Includes(name, IconKeywords[j])]
    ELSE <<"l", "o", "g">>
\* the LogItem constructor, lines 269-299
LogItem(name, type, location, collapsibleState, hostname) ==
    [name |-> name, type |-> type, location |-> location,
     collapsibleState |-> collapsibleState, hostname |-> hostname,
     iconType |-> IconType(name), contextValue |-> "dwLogFile"]

\* hostname.split('.').shift() || 'noName', line 231
FirstLabel(s) ==
    IF \E i \in DOMAIN s : s[i] = "."
    THEN SubSeq(s, 1, (CHOOSE i \in DOMAIN s : s[i] = "." /\ \A j \in 1 .. i - 1 : s[j] # ".") - 1)
    ELSE s
HostItemNameWhole(hostname) ==
    IF hostname = <<>> THEN <<"n", "o", "N", "a", "m", "e">> ELSE hostname
HostItemName(hostname) ==
    IF FirstLabel(hostname) = <<>> THEN <<"n", "o", "N", "a", "m", "e">> ELSE FirstLabel(hostname)
\* the host item of a client, lines 230-236
HostItem(client) ==
    LogItem(HostItemName(client.config.hostname), "host", client.config.hostname,
            "Collapsed", client.config.hostname)
\* getChildren() without an element, lines 203-204 and 229-237: one item per
\* entry of the registry (the order of the items is not modelled)
RootItemsButOne(clients) ==
    [e \in clients \ {CHOOSE x \in clients : TRUE} |-> HostItem(e.client)]
RootItems(clients) == [e \in clients |-> HostItem(e.client)]

\* statuses.filter(status => status.filename.includes(filter)), lines 213-217
FilterStatusesIgnoringFilter(statuses, filter) == statuses
FilterStatuses(statuses, filter) ==
    IF filter # <<>>
    THEN LET Matches(status) == Includes(status.filename, filter)
         IN SelectSeq(statuses, Matches)
    ELSE statuses

PermutationsOf(seq) ==
    {[i \in DOMAIN seq |-> seq[f[i]]] :
        f \in {g \in [DOMAIN seq -> DOMAIN seq] : \A i, j \in DOMAIN seq : g[i] = g[j] => i = j}}
\* b.lastmodifed.getTime() - a.lastmodifed.getTime() is NaN when a date is invalid
ComparatorIsConsistent(statuses) == \A i \in DOMAIN statuses : statuses[i].lastmodifed.valid
IsDescending(statuses) ==
    \A i, j \in DOMAIN statuses :
        i < j => statuses[i].lastmodifed.time >= statuses[j].lastmodifed.time
\* statuses.sort(...), line 219: with a consistent comparator the statuses in
\* descending order of time, equal times in any order; with an inconsistent
\* one the order is implementation-defined
SortOutcomes(statuses) ==
    IF ComparatorIsConsistent(statuses)
    THEN {p \in PermutationsOf(statuses) : IsDescending(p)}
    ELSE PermutationsOf(statuses)

FileItemsMerged(statuses, hostname) ==
    LET firsts == {i \in DOMAIN statuses :
                      \A j \in 1 .. i - 1 : statuses[j].filename # statuses[i].filename}
        Nth(k) == CHOOSE i \in firsts : Cardinality({j \in firsts : j < i}) = k - 1
    IN [k \in 1 .. Cardinality(firsts) |->
           LogItem(statuses[Nth(k)].filename, "file", statuses[Nth(k)].filePath, "None", hostname)]
\* sortedStauses.map(status => new LogItem(...)), lines 221-223
FileItems(statuses, hostname) ==
    [i \in DOMAIN statuses |->
        LogItem(statuses[i].filename, "file", statuses[i].filePath, "None", hostname)]

\* ------------------------------------------------------- requests sent
\* A path or a log text is a sequence of strings: one string for each
\* separator (slash, colon, blank, tab, line feed, bracket) and one for each
\* run of other characters that no pattern of the code looks into.

\* the position of the first occurrence of lit in s, 0 when there is none
IndexOf(s, lit) ==
    LET at == {i \in 1 .. Len(s) - Len(lit) + 1 : SubSeq(s, i, i + Len(lit) - 1) = lit}
    IN IF at = {} THEN 0 ELSE CHOOSE i \in at : \A j \in at : i <= j
\* String.prototype.replace(lit, rep) with a string pattern: the first
\* occurrence only
ReplaceFirst(s, lit, rep) ==
    IF IndexOf(s, lit) = 0 THEN s
    ELSE SubSeq(s, 1, IndexOf(s, lit) - 1) \o rep
            \o SubSeq(s, IndexOf(s, lit) + Len(lit), Len(s))
\* '/on/demandware.servlet/webdav/Sites/Logs/', line 150
WebdavLogsPrefix ==
    <<"/", "on", "/", "demandware.servlet", "/", "webdav", "/", "Sites", "/", "Logs", "/">>
\* the path cleanLog posts to, line 150
CleanLogPath(location) == ReplaceFirst(location, WebdavLogsPrefix, <<>>)
\* `log cleaned by prophet - ${new Date()}\n`, line 151: the text of the date
\* of the call is one string
CleanLogBody == <<"log cleaned by prophet - ", "date now", "\n">>
\* path.basename(location), line 163: what follows the last slash, slashes
\* at the end aside
RECURSIVE Basename(_)
Basename(location) ==
    IF location = <<>> THEN <<>>
    ELSE IF location[Len(location)] = "/" THEN Basename(SubSeq(location, 1, Len(location) - 1))
    ELSE LET slashes == {i \in DOMAIN location : location[i] = "/"}
         IN IF slashes = {} THEN location
            ELSE SubSeq(location, (CHOOSE i \in slashes : \A j \in slashes : j <= i) + 1,
                        Len(location))

\* ------------------------------------------------- the text of openLog
\* what the dot of a pattern matches: anything but a line terminator
IsDot(c) == c \notin {"\n", "\r"}
\* new Date($1) for the text between the brackets, which ends in blank, GMT
LogDateOf(text) == DateOf(SubSeq(text, 1, Len(text) - 2))
\* `${date}`: Date.prototype.toString, one string for the date and one for
\* the instant; timeago().format(date): one string for the rendering
DateString(date) == IF date.valid THEN <<"date", ToString(date.time)>> ELSE <<"Invalid Date">>
TimeagoFormat(date) == IF date.valid THEN <<"ago", ToString(date.time)>> ELSE <<"ago", "NaN">>

\* /\[(.+? GMT)\] /i tried at position i: the position of the blank that
\* ends the shortest match, 0 when there is none
MatchTimestamp(s, i) ==
    LET ends == {e \in i + 5 .. Len(s) :
                    /\ s[i] = "["
                    /\ s[e] = " " /\ s[e - 1] = "]"
                    /\ s[e - 2] \in {"GMT", "gmt"} /\ s[e - 3] = " "
                    /\ \A k \in i + 1 .. e - 4 : IsDot(s[k])}
    IN IF ends = {} THEN 0 ELSE CHOOSE e \in ends : \A f \in ends : e <= f
\* the replacement of lines 167-168 for the match from i to e
TimestampBlock(s, i, e) ==
    LET date == LogDateOf(SubSeq(s, i + 1, e - 2))
    IN <<"\n", "\n", "[">> \o TimeagoFormat(date) \o <<"/">> \o DateString(date) \o <<"]", "\n">>
\* filedata.replace(/\[(.+? GMT)\] /ig, ...), lines 166-169, from position i on
RECURSIVE ReplaceTimestampsFrom(_, _)
ReplaceTimestampsFrom(s, i) ==
    IF i > Len(s) THEN <<>>
    ELSE IF MatchTimestamp(s, i) # 0
         THEN TimestampBlock(s, i, MatchTimestamp(s, i))
                 \o ReplaceTimestampsFrom(s, MatchTimestamp(s, i) + 1)
         ELSE <<s[i]>> \o ReplaceTimestampsFrom(s, i + 1)
ReplaceTimestamps(s) == ReplaceTimestampsFrom(s, 1)

\* /\tat (.*?):(.*?) \(/i tried at position i: the positions of the colon and
\* of the blank before the parenthesis of the shortest match, as a pair, or
\* the empty sequence when there is none
MatchFrame(s, i) ==
    LET Closes(c) == {p \in c + 1 .. Len(s) - 1 :
                         /\ s[p] = " " /\ s[p + 1] = "("
                         /\ \A k \in c + 1 .. p - 1 : IsDot(s[k])}
        colons == {c \in i + 3 .. Len(s) :
                      /\ s[i] = "\t" /\ s[i + 1] \in {"at", "AT", "At", "aT"} /\ s[i + 2] = " "
                      /\ s[c] = ":"
                      /\ \A k \in i + 3 .. c - 1 : IsDot(s[k])
                      /\ Closes(c) # {}}
    IN IF colons = {} THEN <<>>
       ELSE LET c == CHOOSE x \in colons : \A y \in colons : x <= y
            IN <<c, CHOOSE p \in Closes(c) : \A q \in Closes(c) : p <= q>>
\* path.join(root, ...$1.split('/')): the segments after the root, empty
\* ones and single dots dropped, each behind a slash
RECURSIVE JoinSegments(_)
JoinSegments(path) ==
    IF path = <<>> THEN <<>>
    ELSE IF Head(path) \in {"/", "."} THEN JoinSegments(Tail(path))
    ELSE <<"/", Head(path)>> \o JoinSegments(Tail(path))
JoinPath(root, path) == <<root>> \o JoinSegments(path)
\* Uri.parse(path).toString(): the path behind the text of the scheme the
\* editor gives a reference without one, nothing or file://
UriSchemes == {<<>>, <<"file://">>}
\* the replacement of lines 175-176 for the match from i with colon c and end p
FrameLink(s, i, c, p, root, scheme) ==
    <<"\t", "at", " ">> \o scheme \o JoinPath(root, SubSeq(s, i + 3, c - 1))
        \o <<"#">> \o SubSeq(s, c + 1, p - 1) \o <<" ", "(">>
\* filedata.replace(/\tat (.*?):(.*?) \(/ig, ...), lines 173-177
RECURSIVE ReplaceFramesFrom(_, _, _, _)
ReplaceFramesFrom(s, i, root, scheme) ==
    IF i > Len(s) THEN <<>>
    ELSE IF MatchFrame(s, i) # <<>>
         THEN FrameLink(s, i, MatchFrame(s, i)[1], MatchFrame(s, i)[2], root, scheme)
                 \o ReplaceFramesFrom(s, MatchFrame(s, i)[2] + 2, root, scheme)
         ELSE <<s[i]>> \o ReplaceFramesFrom(s, i + 1, root, scheme)
ReplaceFrames(s, root, scheme) == ReplaceFramesFrom(s, 1, root, scheme)

\* filedata.replace(/  /ig, '\n'), line 180
RECURSIVE ReplaceDoubleSpacesFrom(_, _)
ReplaceDoubleSpacesFrom(s, i) ==
    IF i > Len(s) THEN <<>>
    ELSE IF i < Len(s) /\ s[i] = " " /\ s[i + 1] = " "
         THEN <<"\n">> \o ReplaceDoubleSpacesFrom(s, i + 2)
         ELSE <<s[i]>> \o ReplaceDoubleSpacesFrom(s, i + 1)
ReplaceDoubleSpaces(s) == ReplaceDoubleSpacesFrom(s, 1)

\* the content of the document openLog shows, lines 164-180
LogContentSpacesFirst(filedata, root, scheme) ==
    ReplaceFrames(ReplaceTimestamps(ReplaceDoubleSpaces(filedata)), root, scheme)
LogContent(filedata, root, scheme) ==
    ReplaceDoubleSpaces(ReplaceFrames(ReplaceTimestamps(filedata), root, scheme))

\* ------------------------------------------------ the view's operations
Pending(op, hostname, client, request) ==
    [state |-> "pending", op |-> op, hostname |-> hostname, client |-> client,
     request |-> request]
Done(op, hostname, result) ==
    [state |-> "done", op |-> op, hostname |-> hostname, result |-> result]
IsFree(sl) == ops[sl].state # "pending"
IsPending(sl, op) == ops[sl].state = "pending" /\ ops[sl].op = op
\* the tree showed an item of this host at some time
ItemKnown(h) == \E s \in Sources : h \in ResolvedHosts(s)

\* what every operation of the view leaves alone; none of them notifies
ViewFrame ==
    /\ fired' = 0
    /\ last' = [op |-> "view"]
    /\ UNCHANGED <<outer, source, emitted, reading, inner, webdavClients, logsFileNameFilter>>

\* getChildren() without an element, lines 202-204 and 228-238
GetRootChildren(sl) ==
    /\ IsFree(sl)
    /\ ops' = [ops EXCEPT ![sl] =
                  Done("getChildren", Undefined,
                       [kind |-> "hosts",
                        nodes |-> IF webdavClients = {} THEN <<>>
                                  ELSE RootItems(webdavClients)])]
    /\ ViewFrame

\* getChildren(element) up to the dirList call, lines 202-210 and 225-227
GetChildrenStart(clients, h) ==
    IF clients = {}
    THEN [kind |-> "nodes", nodes |-> <<>>, statuses |-> <<>>, data |-> <<>>, asked |-> <<>>,
          live |-> FALSE]
    ELSE IF MapHas(clients, h) THEN [kind |-> "list", client |-> MapGet(clients, h).origin]
    ELSE [kind |-> "throw"]

GetChildren(sl, h) ==
    /\ IsFree(sl)
    /\ ItemKnown(h)
    /\ LET r == GetChildrenStart(webdavClients, h)
       IN ops' = [ops EXCEPT ![sl] =
                     IF r.kind = "list"
                     THEN Pending("list", h, r.client,
                                  [path |-> <<".">>, filter |-> logsFileNameFilter])
                     ELSE Done("getChildren", h, r)]
    /\ ViewFrame

ListRespondsAsAsked(sl, data) ==
    /\ IsPending(sl, "list")
    /\ \E sorted \in SortOutcomes(FilterStatuses(ParseResponse(data), ops[sl].request.filter)) :
          ops' = [ops EXCEPT ![sl] =
                     Done("getChildren", ops[sl].hostname,
                          [kind |-> "nodes",
                           nodes |-> FileItems(sorted, ops[sl].hostname),
                           statuses |-> sorted,
                           data |-> data,
                           asked |-> ops[sl].request.filter,
                           live |-> TRUE])]
    /\ ViewFrame
\* dirList answers with the listing data: lines 210-224.  The callback reads
\* this._logsFileNameFilter when it runs; filter in the request and asked in
\* the result keep the filter of the time of the call for comparison, the
\* code keeps neither.  live tells that the stream of dirList has not ended:
\* observable2promise stays subscribed after the promise is settled.
ListResponds(sl, data) ==
    /\ IsPending(sl, "list")
    /\ \E sorted \in SortOutcomes(FilterStatuses(ParseResponse(data), logsFileNameFilter)) :
          ops' = [ops EXCEPT ![sl] =
                     Done("getChildren", ops[sl].hostname,
                          [kind |-> "nodes",
                           nodes |-> FileItems(sorted, ops[sl].hostname),
                           statuses |-> sorted,
                           data |-> data,
                           asked |-> ops[sl].request.filter,
                           live |-> TRUE])]
    /\ ViewFrame

\* the resolve and reject functions of the Promise of lines 68-70: the first
\* call of either settles the promise, a later call leaves it as it is
SettleAgain(call, settled) == settled
Settle(call, settled) == IF call.state = "pending" THEN settled ELSE call

\* the stream of dirList completes before it delivered a value: the third
\* argument of subscribe is reject, line 69
ListCompletesEmpty(sl) ==
    /\ IsPending(sl, "list")
    /\ ops' = [ops EXCEPT ![sl] =
                  Settle(ops[sl], Done("getChildren", ops[sl].hostname, [kind |-> "rejected"]))]
    /\ ViewFrame

\* the stream of dirList goes on after its first value: another value runs
\* the map callback and calls resolve, an error or the completion calls
\* reject and ends the stream, line 69
ListGoesOn(sl, event) ==
    /\ ops[sl].state = "done"
    /\ ops[sl].result.kind = "nodes"
    /\ ops[sl].result.live
    /\ IF event.kind = "next"
       THEN \E sorted \in SortOutcomes(FilterStatuses(ParseResponse(event.data),
                                                      logsFileNameFilter)) :
               ops' = [ops EXCEPT ![sl] =
                          Settle(ops[sl],
                                 Done("getChildren", ops[sl].hostname,
                                      [kind |-> "nodes",
                                       nodes |-> FileItems(sorted, ops[sl].hostname),
                                       statuses |-> sorted,
                                       data |-> event.data,
                                       asked |-> ops[sl].result.asked,
                                       live |-> TRUE]))]
       ELSE ops' = [ops EXCEPT ![sl] =
                       Settle([ops[sl] EXCEPT !.result.live = FALSE],
                              Done("getChildren", ops[sl].hostname, [kind |-> "rejected"]))]
    /\ fired' = 0
    /\ last' = [op |-> "late", event |-> event.kind]
    /\ UNCHANGED <<outer, source, emitted, reading, inner, webdavClients, logsFileNameFilter>>

ListFailsAll(sl) ==
    /\ IsPending(sl, "list")
    /\ ops' = [x \in Slots |->
                  IF ops[x].state = "pending" /\ ops[x].op = "list"
                  THEN Done("getChildren", ops[x].hostname, [kind |-> "rejected"])
                  ELSE ops[x]]
    /\ ViewFrame
\* dirList fails: the promise of observable2promise rejects, getChildren rejects
ListFails(sl) ==
    /\ IsPending(sl, "list")
    /\ ops' = [ops EXCEPT ![sl] = Done("getChildren", ops[sl].hostname, [kind |-> "rejected"])]
    /\ ViewFrame

OpenLogTwice(sl, logItem) ==
    /\ IsFree(sl)
    /\ ItemKnown(logItem.hostname)
    /\ ops' = [x \in Slots |->
                  IF MapHas(webdavClients, logItem.hostname)
                  THEN IF IsFree(x)
                       THEN LET webdavClient == MapGet(webdavClients, logItem.hostname)
                            IN Pending("get", logItem.hostname, webdavClient.origin,
                                       [path |-> Basename(logItem.location),
                                        root |-> webdavClient.config.root])
                       ELSE ops[x]
                  ELSE IF x = sl THEN Done("openLog", logItem.hostname, [kind |-> "nothing"])
                       ELSE ops[x]]
    /\ ViewFrame
\* openLog up to the get call, lines 157-163: without a client nothing happens
OpenLog(sl, logItem) ==
    /\ IsFree(sl)
    /\ ItemKnown(logItem.hostname)
    /\ ops' = [ops EXCEPT ![sl] =
                  IF MapHas(webdavClients, logItem.hostname)
                  THEN LET webdavClient == MapGet(webdavClients, logItem.hostname)
                       IN Pending("get", logItem.hostname, webdavClient.origin,
                                  [path |-> Basename(logItem.location),
                                   root |-> webdavClient.config.root])
                  ELSE Done("openLog", logItem.hostname, [kind |-> "nothing"])]
    /\ ViewFrame

\* get answers: the text is rewritten and shown, lines 164-192
GetResponds(sl, filedata) ==
    /\ IsPending(sl, "get")
    /\ \E scheme \in UriSchemes :
          ops' = [ops EXCEPT ![sl] =
                     Done("openLog", ops[sl].hostname,
                          [kind |-> "document",
                           content |-> LogContent(filedata, ops[sl].request.root, scheme),
                           filedata |-> filedata])]
    /\ ViewFrame

GetFailsDropsClient(sl) ==
    /\ IsPending(sl, "get")
    /\ ops' = [ops EXCEPT ![sl] = Done("openLog", ops[sl].hostname, [kind |-> "errorMessage"])]
    /\ webdavClients' = MapDelete(webdavClients, ops[sl].hostname)
    /\ fired' = 0
    /\ last' = [op |-> "view"]
    /\ UNCHANGED <<outer, source, emitted, reading, inner, logsFileNameFilter>>
\* get fails: window.showErrorMessage(err), lines 194-196
GetFails(sl) ==
    /\ IsPending(sl, "get")
    /\ ops' = [ops EXCEPT ![sl] = Done("openLog", ops[sl].hostname, [kind |-> "errorMessage"])]
    /\ ViewFrame

CleanLogUnchecked(sl, logItem) ==
    /\ IsFree(sl)
    /\ ItemKnown(logItem.hostname)
    /\ ops' = [ops EXCEPT ![sl] =
                  Pending("post", logItem.hostname, [src |-> 1, n |-> 1],
                          [path |-> CleanLogPath(logItem.location), body |-> CleanLogBody])]
    /\ ViewFrame
\* cleanLog up to the postBody call, lines 141-153: without a client nothing happens
CleanLog(sl, logItem) ==
    /\ IsFree(sl)
    /\ ItemKnown(logItem.hostname)
    /\ ops' = [ops EXCEPT ![sl] =
                  IF MapHas(webdavClients, logItem.hostname)
                  THEN Pending("post", logItem.hostname,
                               MapGet(webdavClients, logItem.hostname).origin,
                               [path |-> CleanLogPath(logItem.location),
                                body |-> CleanLogBody])
                  ELSE Done("cleanLog", logItem.hostname, [kind |-> "nothing"])]
    /\ ViewFrame

\* postBody answers: the promise handed to withProgress resolves
PostResponds(sl) ==
    /\ IsPending(sl, "post")
    /\ ops' = [ops EXCEPT ![sl] = Done("cleanLog", ops[sl].hostname, [kind |-> "cleaned"])]
    /\ ViewFrame

PostFailsRetries(sl) ==
    /\ IsPending(sl, "post")
    /\ ops' = [ops EXCEPT ![sl] =
                  Pending("post", ops[sl].hostname, ops[sl].client, ops[sl].request)]
    /\ ViewFrame
\* postBody fails: the promise handed to withProgress rejects and nothing
\* handles the rejection, lines 145-154
PostFails(sl) ==
    /\ IsPending(sl, "post")
    /\ ops' = [ops EXCEPT ![sl] =
                  Done("cleanLog", ops[sl].hostname, [kind |-> "unhandledRejection"])]
    /\ ViewFrame

\* ------------------------------------------------------ listings served
Text_error == <<"e", "r", "r", "o", "r">>
Text_access == <<"a", "c", "c", "e", "s", "s">>
Response(displayname, href, getlastmodified, getcontentlength) ==
    [displayname |-> displayname, href |-> href,
     getlastmodified |-> getlastmodified, getcontentlength |-> getcontentlength]
ErrorLog == Response(Text_error \o DotLog, <<"/", "e">>, <<"day1">>, <<"1", "0">>)
AccessLog == Response(Text_access \o DotLog, <<"/", "a">>, <<"day2">>, <<"7">>)
Error2Log == Response(Text_error \o <<"2">> \o DotLog, <<"/", "e", "2">>, <<"day3">>, <<"0">>)
BladeLog ==
    Response(Text_error \o <<"-", "b", "l", "a", "d", "e", "1", "-", "2", "-",
                             "a", "p", "p", "s", "e", "r", "v", "e", "r">> \o DotLog,
             <<"/", "b">>, <<"day2">>, <<"5">>)
UndatedLog == Response(<<"E">> \o DotLog, <<"/", "u">>, <<"soon">>, Undefined)
AccessTxt == Response(Text_access \o <<".", "t", "x", "t">>, <<"/", "t">>, <<"day3">>, <<"1">>)
Folder == Response(<<"f">>, <<"/", "f">>, Undefined, Undefined)
NoHrefLog == Response(<<"n">> \o DotLog, Undefined, <<"day1">>, <<"3">>)
Nameless == Response(Undefined, <<"/", "x">>, <<"day2">>, <<"x">>)

ResponseElements ==
    {ErrorLog, AccessLog, Error2Log, BladeLog, UndatedLog, AccessTxt, Folder,
     NoHrefLog, Nameless}
\* every listing of up to MaxListing of these elements, and two longer ones
ExampleListings == {<<ErrorLog, AccessLog, Error2Log>>, <<AccessTxt, ErrorLog, Folder>>}
Listings == UNION {[1 .. n -> ResponseElements] : n \in 0 .. MaxListing} \cup ExampleListings
\* the listings the servers answer with while the registry changes
ViewListings == {<<ErrorLog, AccessLog>>}

\* the log texts served: the pieces a text is made of
Word == <<"hello">>
DoubleSpace == <<" ", " ">>
Timestamp == <<"[", "day1", " ", "GMT", "]", " ">>
BadTimestamp == <<"[", "soon", " ", "gmt", "]", " ">>
Frame == <<"\n", "\t", "at", " ", "app", "/", "controllers", "/", "Foo.js", ":", "12",
           " ", "(", "native", ")">>
TextPieces == {Word, DoubleSpace, Timestamp, BadTimestamp, Frame}
RECURSIVE Concat(_)
Concat(pieces) == IF pieces = <<>> THEN <<>> ELSE Head(pieces) \o Concat(Tail(pieces))
\* every text of up to MaxText of these pieces
Files == {Concat(pieces) : pieces \in UNION {[1 .. n -> TextPieces] : n \in 0 .. MaxText}}
\* '[<date> GMT] hello  world\n\tat app/controllers/Foo.js:12 (native)'
SampleText == Timestamp \o Word \o DoubleSpace \o <<"world">> \o Frame
ViewFiles == {Timestamp \o Word}

\* the file items the tree shows for a host whose listing is data
ItemsOf(data, hostname) ==
    LET items == FileItems(ParseResponse(data), hostname)
    IN {items[i] : i \in DOMAIN items}
\* the file items acted on while the registry changes
ViewItems == UNION {ItemsOf(<<ErrorLog>>, h) : h \in Hostnames}

\* -------------------------------------------- the view over the registry
\* The view's operations beside a registry that source 1 fills and empties,
\* after source 2 resolved to a host and ended.
ViewSources == {1}
ViewFilters == {<<>>}
EndedOptions == [hostname |-> <<"s", "t", "g", ".", "h">>, root |-> "/Sites/Logs"]
ViewInit ==
    /\ outer = "active"
    /\ source = [s \in Sources |-> IF s = 2 THEN "ended" ELSE "unseen"]
    /\ emitted = 1
    /\ reading = [s \in Sources |-> 0]
    /\ inner = [s \in Sources |->
                  IF s = 2
                  THEN <<[davOptins |-> EndedOptions, closed |-> TRUE, runs |-> 1]>>
                  ELSE <<>>]
    /\ webdavClients = {}
    /\ logsFileNameFilter = <<>>
    /\ fired = 1
    /\ ops = [sl \in Slots |-> Idle]
    /\ last = [op |-> "end", src |-> 2]
ViewNext ==
    \/ \E s \in ViewSources : SourceAppears(s)
    \/ \E s \in ViewSources : SourceEmits(s)
    \/ \E s \in ViewSources : \E d \in DavOptions : ConfigResolved(s, d)
    \/ \E s \in ViewSources : SourceEnds(s)
    \/ Refresh
    \/ \E f \in ViewFilters : ShowFilterBox(f)
    \/ \E sl \in Slots : GetRootChildren(sl)
    \/ \E sl \in Slots : \E h \in Hostnames : GetChildren(sl, h)
    \/ \E sl \in Slots : \E data \in ViewListings : ListResponds(sl, data)
    \/ \E sl \in Slots : ListFails(sl)
    \/ \E sl \in Slots : \E logItem \in ViewItems : OpenLog(sl, logItem)
    \/ \E sl \in Slots : \E filedata \in ViewFiles : GetResponds(sl, filedata)
    \/ \E sl \in Slots : GetFails(sl)
    \/ \E sl \in Slots : \E logItem \in ViewItems : CleanLog(sl, logItem)
    \/ \E sl \in Slots : PostResponds(sl)
    \/ \E sl \in Slots : PostFails(sl)

ViewSpec == ViewInit /\ [][ViewNext]_vars

\* ------------------------------------------- getChildren on any listing
\* The registry after the first resolution, under any filter.
FirstOptions == [hostname |-> <<"d", "e", "v", ".", "h">>, root |-> "/Sites/Logs"]
ListingInit ==
    /\ outer = "active"
    /\ source = [s \in Sources |-> IF s = 1 THEN "subscribed" ELSE "unseen"]
    /\ emitted = 1
    /\ reading = [s \in Sources |-> 0]
    /\ inner = [s \in Sources |-> IF s = 1 THEN <<NewInner(FirstOptions)>> ELSE <<>>]
    /\ webdavClients =
          MapSet({}, FirstOptions.hostname, NewWebDav(FirstOptions, [src |-> 1, n |-> 1]))
    /\ logsFileNameFilter \in Filters
    /\ fired = 1
    /\ ops = [sl \in Slots |-> Idle]
    /\ last = [op |-> "resolve", src |-> 1]

ListingNext ==
    \/ \E h \in Hostnames : GetChildren(1, h)
    \/ \E data \in Listings : ListResponds(1, data)

ListingSpec == ListingInit /\ [][ListingNext]_vars

\* ------------------------------------- openLog and cleanLog on any item
\* The registry after the first resolution; the items are those of the
\* listings of one response, whose href is the displayname behind the path
\* of the log folder.
LogNames ==
    {Text_error \o DotLog, BladeLog.displayname,
     <<"a", "-", "B", "l", "a", "d", "e", "0", "-", "1", "2", "-",
       "A", "P", "P", "S", "E", "R", "V", "E", "R">> \o DotLog}
LogResponse(name) == Response(name, WebdavLogsPrefix \o name, <<"day1">>, <<"1">>)
Items ==
    UNION {ItemsOf(<<LogResponse(name)>>, FirstOptions.hostname) : name \in LogNames}
        \cup ItemsOf(<<ErrorLog>>, FirstOptions.hostname)
ItemInit == ListingInit /\ logsFileNameFilter = <<>>
ItemNext ==
    \/ \E logItem \in Items : OpenLog(1, logItem)
    \/ \E filedata \in Files \cup {SampleText} : GetResponds(1, filedata)
    \/ GetFails(1)
    \/ \E logItem \in Items : CleanLog(1, logItem)
    \/ PostResponds(1)
    \/ PostFails(1)
ItemSpec == ItemInit /\ [][ItemNext]_vars

\* --------------------------------------------- parsing any displayname
\* The registry after the first resolution; the listings are those of one
\* response whose displayname is a base, a qualifier in some letter case
\* with up to MaxDigits digits in each position, and .log.
Bases == {<<"e">>, <<"a", "-", "b", "l", "a", "d", "e">>}
BladeWords ==
    {<<"-", "b", "l", "a", "d", "e">>, <<"-", "B", "L", "A", "D", "E">>,
     <<"-", "B", "l", "a", "d", "E">>}
AppserverWords ==
    {<<"-", "a", "p", "p", "s", "e", "r", "v", "e", "r">>,
     <<"-", "A", "P", "P", "S", "E", "R", "V", "E", "R">>,
     <<"-", "A", "p", "p", "S", "e", "r", "v", "e", "R">>}
DigitTexts(lengths) == UNION {[1 .. n -> {"0", "7"}] : n \in lengths}
\* the qualifiers with a number of digits of lengths in each position
Qualifiers(lengths) ==
    {blade \o d1 \o <<"-">> \o d2 \o appserver :
        blade \in BladeWords, d1 \in DigitTexts(lengths), d2 \in DigitTexts(lengths),
        appserver \in AppserverWords}
DisplayNames ==
    {base \o DotLog : base \in Bases}
        \cup {base \o q \o DotLog : base \in Bases, q \in Qualifiers(0 .. MaxDigits)}
NameResponse(name) == Response(name, <<"/", "n">>, <<"day1">>, <<"1">>)
NameNext ==
    \/ \E h \in Hostnames : GetChildren(1, h)
    \/ \E name \in DisplayNames : ListResponds(1, <<NameResponse(name)>>)
NameSpec == ItemInit /\ [][NameNext]_vars

\* ------------------------------------ the filter box during a listing
\* The registry after the first resolution; the filter box is answered or
\* dismissed at any time, also while a listing is awaited.
FilterListings == ExampleListings \cup {<<ErrorLog, BladeLog>>, <<UndatedLog, ErrorLog>>}
FilterNext ==
    \/ \E h \in Hostnames : GetChildren(1, h)
    \/ \E searchFilter \in Filters \cup {Undefined} : ShowFilterBox(searchFilter)
    \/ \E data \in FilterListings : ListResponds(1, data)
    \/ ListFails(1)
FilterSpec == ListingInit /\ [][FilterNext]_vars

\* ---------------------------------------- the stream behind a promise
\* The registry after the first resolution; the stream of dirList delivers
\* any number of listings and then fails or completes, or does so at once;
\* the listings after the first are those of FilterListings.
StreamEvents ==
    [kind : {"next"}, data : FilterListings] \cup {[kind |-> "error"], [kind |-> "complete"]}
PromiseNext ==
    \/ \E h \in Hostnames : GetChildren(1, h)
    \/ \E data \in Listings : ListResponds(1, data)
    \/ ListFails(1)
    \/ ListCompletesEmpty(1)
    \/ \E event \in StreamEvents : ListGoesOn(1, event)
PromiseSpec == ItemInit /\ [][PromiseNext]_vars

\* ------------------------------------------------- the item of any host
\* One folder whose configuration files name hosts with no dot, with an
\* empty first label, with several dots, and the empty hostname.
AnyHostnames ==
    Hostnames \cup {<<".", "h">>, <<"h">>, <<"a", ".", "b", ".", "c">>, <<>>}
HostOptions == [hostname : AnyHostnames, root : Roots]
HostNext ==
    \/ SourceAppears(1)
    \/ SourceEmits(1)
    \/ \E davOptins \in HostOptions : ConfigResolved(1, davOptins)
    \/ SourceEnds(1)
    \/ GetRootChildren(1)
HostSpec == Init /\ [][HostNext]_vars

\* ------------------------------------------------- the icon of any name
\* The registry after the first resolution; the listings are those of one
\* response whose displayname is up to MaxWords words and .log.
NameWords ==
    {<<"f", "a", "t", "a", "l">>, <<"e", "r", "r", "o", "r">>, <<"w", "a", "r", "n">>,
     <<"i", "n", "f", "o">>, <<"d", "e", "b", "u", "g">>, <<"E", "r", "r", "o", "r">>,
     <<"x">>}
WordNames ==
    {Concat(words) \o DotLog : words \in UNION {[1 .. n -> NameWords] : n \in 0 .. MaxWords}}
IconNext ==
    \/ \E h \in Hostnames : GetChildren(1, h)
    \/ \E name \in WordNames : ListResponds(1, <<NameResponse(name)>>)
IconSpec == ItemInit /\ [][IconNext]_vars

\* ---------------------------------------------------------------- claims

\* C1: the registry never holds two clients for one hostname, and a resolution
\* to a hostname that already has a client keeps that client: nothing is
\* created or substituted and the registry is unchanged (first wins).
C1_OneClientFirstWins ==
    [][/\ \A e1, e2 \in webdavClients' : e1.key = e2.key => e1 = e2
       /\ \A s \in Sources : \A d \in DavOptions :
            (ConfigResolved(s, d) /\ MapHas(webdavClients, d.hostname))
                => webdavClients' = webdavClients]_vars

\* C1 witness: a source just resolved to a hostname whose client, constructed
\* for another source, is still the registered one, and nothing was notified.
C1_Witness ==
    /\ last.op = "resolve"
    /\ fired = 0
    /\ \E a \in Sources \ {last.src} :
          /\ LastHost(last.src) \in OpenHosts(a)
          /\ OwnsClient(a, LastHost(last.src))

\* C2: with A and B both resolved to h and the client constructed for A, the
\* end of B while A is still subscribed leaves h registered.
C2_OnlyAttributingSourceRemoves ==
    [][\A a, b \in Sources : \A h \in Hostnames :
          (/\ a # b
           /\ SourceEnds(b)
           /\ source[a] = "subscribed"
           /\ h \in OpenHosts(a)
           /\ h \in OpenHosts(b)
           /\ OwnsClient(a, h))
              => MapHas(webdavClients', h)]_vars

\* C3: a resolution to a hostname h with no client registers a new client
\* under key h, leaves the other entries alone and notifies exactly once.
C3_ResolveCreatesAndNotifiesOnce ==
    [][\A s \in Sources : \A d \in DavOptions :
          (ConfigResolved(s, d) /\ ~MapHas(webdavClients, d.hostname))
              => /\ EntriesOf(webdavClients', d.hostname)
                      = {[key |-> d.hostname,
                          client |-> NewWebDav(d, [src |-> s, n |-> Len(inner[s]) + 1])]}
                 /\ \A h \in Hostnames \ {d.hostname} :
                       EntriesOf(webdavClients', h) = EntriesOf(webdavClients, h)
                 /\ fired' = 1]_vars

\* C3 witness: the last handler was a resolution that constructed the
\* registered client of its hostname and notified once.
C3_Witness ==
    /\ last.op = "resolve"
    /\ fired = 1
    /\ OwnsClient(last.src, LastHost(last.src))
    /\ MapGet(webdavClients, LastHost(last.src)).config.hostname = LastHost(last.src)

\* C4: when the source whose resolution constructed the registered client of
\* h ends, h leaves the registry and a refresh is notified, whatever the
\* other sources did before.
C4_EndOfProducerRemoves ==
    [][\A s \in Sources : \A h \in Hostnames :
          (SourceEnds(s) /\ OwnsClient(s, h))
              => ~MapHas(webdavClients', h) /\ fired' >= 1]_vars

\* C4 witness: a source that alone resolved to h has just ended and h is
\* gone, while another source is still subscribed with its own client.
C4_Witness ==
    /\ last.op = "end"
    /\ fired >= 1
    /\ \E h \in ResolvedHosts(last.src) :
          /\ ~MapHas(webdavClients, h)
          /\ \A b \in Sources \ {last.src} : h \notin ResolvedHosts(b)
    /\ \E b \in Sources \ {last.src} : \E h2 \in Hostnames :
          source[b] = "subscribed" /\ OwnsClient(b, h2)

C7_NoRefreshAfterTeardown ==
    [][outer = "completed" => fired' = 0]_vars

C9_NoLeak ==
    (\A s \in Sources : source[s] # "subscribed") => webdavClients = {}

\* C9 witness: every source appeared and ended by itself, two of them had
\* resolved to the same hostname and one had resolved more than once.
C9_Witness ==
    /\ outer = "active"
    /\ \A s \in Sources : source[s] = "ended"
    /\ \E a, b \in Sources : a # b /\ ResolvedHosts(a) \cap ResolvedHosts(b) # {}
    /\ \E s \in Sources : Len(inner[s]) >= 2 /\ Cardinality(ResolvedHosts(s)) >= 2
    /\ webdavClients = {}

\* C10: the end of a source leaves the registry entry of every hostname it
\* did not resolve to as it was.
C10_EndLeavesOtherHosts ==
    [][\A s \in Sources : \A h2 \in Hostnames :
          (SourceEnds(s) /\ h2 \notin ResolvedHosts(s))
              => EntriesOf(webdavClients', h2) = EntriesOf(webdavClients, h2)]_vars

\* C10 witness: a source has just ended and its client was removed, while
\* the client of a hostname it never resolved to is still registered for a
\* source that is still subscribed.
C10_Witness ==
    /\ last.op = "end"
    /\ fired >= 1
    /\ \E b \in Sources \ {last.src} : \E h2 \in Hostnames \ ResolvedHosts(last.src) :
          source[b] = "subscribed" /\ OwnsClient(b, h2)

\* C11: a failing resolution creates no client, does not end the chain of
\* its source with an error and leaves the clients that resolutions of
\* other sources constructed registered.
C11_FailureIsSilent ==
    [][\A s \in Sources :
          ConfigFails(s)
              => /\ MapKeys(webdavClients') \subseteq MapKeys(webdavClients)
                 /\ source'[s] # "errored"
                 /\ \A e \in webdavClients :
                       e.client.origin.src # s => e \in webdavClients']_vars

\* the hostnames of the items a call of getChildren() returned
HostnamesOfItems(nodes) == {nodes[e].hostname : e \in DOMAIN nodes}
\* a step of the view in which no call but the one of slot sl moves
OnlySlotActs(sl) ==
    last'.op = "view" /\ \A other \in Slots \ {sl} : ops'[other] = ops[other]
\* the call of slot sl starts, is answered or fails in this step
Acts(sl) == ops'[sl] # ops[sl]
IsViewStep == last'.op \in {"view", "refresh", "filter", "filterDismissed"}

\* C12: getChildren() without an element returns one host item for each
\* hostname of the registry as it is at the call: no other hostname, none
\* missing, none twice.
C12_RootItemsAreRegistryKeys ==
    [][\A sl \in Slots :
          (Acts(sl) /\ IsFree(sl) /\ OnlySlotActs(sl) /\ GetRootChildren(sl))
              => LET nodes == ops'[sl].result.nodes
                 IN /\ HostnamesOfItems(nodes) = MapKeys(webdavClients)
                    /\ \A e1, e2 \in DOMAIN nodes :
                          nodes[e1].hostname = nodes[e2].hostname => e1 = e2
                    /\ \A e \in DOMAIN nodes : nodes[e].type = "host"]_vars

\* C12 witness: a call returned the items of two registered hosts and the
\* registry still holds exactly these, the ended source's host not among
\* them once it is the only one resolved by it.
C12_Witness ==
    \E sl \in Slots :
        /\ ops[sl].state = "done"
        /\ ops[sl].op = "getChildren"
        /\ ops[sl].result.kind = "hosts"
        /\ Cardinality(DOMAIN ops[sl].result.nodes) = 2
        /\ HostnamesOfItems(ops[sl].result.nodes) = MapKeys(webdavClients)

\* C13: getChildren for the item of a host that has no client fails with an
\* error, whatever else the registry holds, the empty registry included.
C13_MissingClientThrows ==
    [][\A sl \in Slots : \A h \in Hostnames :
          (GetChildren(sl, h) /\ ~MapHas(webdavClients, h))
              => ops'[sl].state = "done" /\ ops'[sl].result.kind = "throw"]_vars

\* C14: openLog and cleanLog for the item of a host that has no client
\* report an error instead of doing nothing.
C14_MissingClientIsReported ==
    [][\A sl \in Slots : \A logItem \in ViewItems :
          ((OpenLog(sl, logItem) \/ CleanLog(sl, logItem))
              /\ ~MapHas(webdavClients, logItem.hostname))
              => ops'[sl].state = "done" /\ ops'[sl].result.kind = "errorMessage"]_vars

\* C15: a failing listing rejects its own getChildren call and nothing
\* else: the other calls, the registry and the filter are as before; a
\* listing that answers gives its call the items, and getChildren for a
\* registered host issues its listing, whatever failed before.
C15_ListFailureIsLocal ==
    [][/\ \A sl \in Slots :
             (IsPending(sl, "list") /\ ListFails(sl))
                 => /\ ops'[sl] = Done("getChildren", ops[sl].hostname, [kind |-> "rejected"])
                    /\ \A other \in Slots \ {sl} : ops'[other] = ops[other]
                    /\ webdavClients' = webdavClients
                    /\ logsFileNameFilter' = logsFileNameFilter
       /\ \A sl \in Slots : \A data \in ViewListings :
             (Acts(sl) /\ IsPending(sl, "list") /\ OnlySlotActs(sl) /\ ListResponds(sl, data))
                 => /\ ops'[sl].state = "done"
                    /\ ops'[sl].result.kind = "nodes"
                    /\ ops'[sl].hostname = ops[sl].hostname
       /\ \A sl \in Slots : \A h \in Hostnames :
             (/\ Acts(sl) /\ IsFree(sl) /\ MapHas(webdavClients, h)
              /\ OnlySlotActs(sl) /\ GetChildren(sl, h))
                 => ops'[sl].state = "pending" /\ ops'[sl].op = "list"]_vars

\* C15 witness: the listing of one host failed and the listing of another
\* host gave its call two items, both hosts being registered.
C15_Witness ==
    \E a, b \in Slots :
        /\ ops[a].state = "done" /\ ops[a].op = "getChildren"
        /\ ops[a].result.kind = "rejected"
        /\ ops[b].state = "done" /\ ops[b].op = "getChildren"
        /\ ops[b].result.kind = "nodes"
        /\ Len(ops[b].result.nodes) = 2
        /\ ops[a].hostname # ops[b].hostname
        /\ MapKeys(webdavClients) = {ops[a].hostname, ops[b].hostname}

\* C16: a failing get of openLog and a failing post of cleanLog are each
\* reported to the user as an error, and leave the registry and the filter
\* as they were.
C16_TransportFailureIsReported ==
    [][\A sl \in Slots :
          (GetFails(sl) \/ PostFails(sl))
              => /\ ops'[sl].result.kind = "errorMessage"
                 /\ webdavClients' = webdavClients
                 /\ logsFileNameFilter' = logsFileNameFilter]_vars

\* C17: the items getChildren returns for a host are in descending order of
\* the time of last modification: of any two, the earlier one's time is
\* greater than or equal to the later one's.
TimeAtLeast(a, b) == a.valid /\ b.valid /\ a.time >= b.time
C17_ItemsDescendByTime ==
    \A sl \in Slots :
        (ops[sl].state = "done" /\ ops[sl].result.kind = "nodes")
            => \A i, j \in DOMAIN ops[sl].result.statuses :
                  i < j => TimeAtLeast(ops[sl].result.statuses[i].lastmodifed,
                                       ops[sl].result.statuses[j].lastmodifed)

\* C18: under a filter that is not empty getChildren returns exactly the
\* parsed descriptors whose file name holds the filter, letter case
\* included, and under the empty filter all of them; so error over
\* error.log, access.log, error2.log gives error.log and error2.log.
FilenamesOf(statuses) == {statuses[i].filename : i \in DOMAIN statuses}
C18_FilterKeepsMatchingNames ==
    [][(IsPending(1, "list") /\ ops'[1].state = "done" /\ ops'[1].result.kind = "nodes")
          => LET data == ops'[1].result.data
                 parsed == ParseResponse(data)
                 kept == {i \in DOMAIN parsed :
                             \/ logsFileNameFilter = <<>>
                             \/ \E k \in 0 .. Len(parsed[i].filename) :
                                   /\ k + Len(logsFileNameFilter) <= Len(parsed[i].filename)
                                   /\ \A m \in 1 .. Len(logsFileNameFilter) :
                                         parsed[i].filename[k + m] = logsFileNameFilter[m]}
                 got == ops'[1].result.statuses
             IN /\ Len(got) = Cardinality(kept)
                /\ \A i \in kept :
                      Cardinality({x \in DOMAIN got : got[x] = parsed[i]})
                          = Cardinality({j \in kept : parsed[j] = parsed[i]})
                /\ (data = <<ErrorLog, AccessLog, Error2Log>> /\ logsFileNameFilter = Text_error)
                      => FilenamesOf(got) = {Text_error \o DotLog, Text_error \o <<"2">> \o DotLog}]_vars

\* C18 witness: under the filter error the listing error.log, access.log,
\* error2.log gave the two items error.log and error2.log.
C18_Witness ==
    /\ logsFileNameFilter = Text_error
    /\ ops[1].state = "done"
    /\ ops[1].result.kind = "nodes"
    /\ ops[1].result.data = <<ErrorLog, AccessLog, Error2Log>>
    /\ FilenamesOf(ops[1].result.statuses) = {Text_error \o DotLog, Text_error \o <<"2">> \o DotLog}

\* C19: answering the filter box with a text, the empty one included, makes
\* that text the filter and notifies one refresh; the registry, the sources
\* and the calls in flight are as before.
C19_SetFilterReplacesAndNotifies ==
    [][\A f \in Filters :
          ShowFilterBox(f)
              => /\ logsFileNameFilter' = f
                 /\ fired' = 1
                 /\ webdavClients' = webdavClients
                 /\ UNCHANGED <<outer, source, inner, ops>>]_vars

\* C19 witness: the filter box was just answered with error while a client
\* was registered.
C19_Witness ==
    /\ last.op = "filter"
    /\ logsFileNameFilter = Text_error
    /\ fired = 1
    /\ webdavClients # {}

\* C20: refresh, the filter box, getChildren, openLog and cleanLog, started,
\* answered or failed, leave the registry as it is; only the steps of the
\* configuration chains change it.
C20_OnlyConfigStepsWriteRegistry ==
    [][/\ IsViewStep => webdavClients' = webdavClients
       /\ webdavClients' # webdavClients
             => last'.op \in {"resolve", "end", "fail", "outerComplete"}]_vars

\* C20 witness: a get of openLog failed and the client of its host is
\* still registered.
C20_Witness ==
    \E sl \in Slots :
        /\ last.op = "view"
        /\ ops[sl].state = "done"
        /\ ops[sl].result.kind = "errorMessage"
        /\ MapHas(webdavClients, ops[sl].hostname)

\* C21: a getChildren, openLog or cleanLog for a host without a client
\* issues no call, and a call that is issued goes to the client registered
\* for the host at that moment; a call in flight is changed by no step of
\* the configuration chains, the removal of its client included, and can
\* still be answered or fail after it.
C21_NoCallToRemovedClient ==
    [][/\ \A sl \in Slots :
             (IsFree(sl) /\ ops'[sl].state = "pending")
                 => \E e \in webdavClients :
                       e.key = ops'[sl].hostname /\ e.client.origin = ops'[sl].client
       /\ \A sl \in Slots :
             (ops[sl].state = "pending" /\ ops'[sl] # ops[sl])
                 => /\ OnlySlotActs(sl)
                    /\ ops'[sl].state = "done"
                    /\ ops'[sl].hostname = ops[sl].hostname
       /\ \A sl \in Slots :
             /\ IsPending(sl, "list") => ENABLED ListFails(sl)
             /\ IsPending(sl, "get") => ENABLED GetFails(sl)
             /\ IsPending(sl, "post") => ENABLED PostResponds(sl)]_vars

\* C21 witness: a call for a host is in flight after the client of the host
\* was removed, and a later openLog or cleanLog for that host issued nothing.
C21_Witness ==
    \E a, b \in Slots :
        /\ ops[a].state = "pending"
        /\ ~MapHas(webdavClients, ops[a].hostname)
        /\ ops[b].state = "done"
        /\ ops[b].hostname = ops[a].hostname
        /\ ops[b].result.kind = "nothing"

\* the calls in flight
InFlight(calls) == {sl \in Slots : calls[sl].state = "pending"}

\* C22: cleanLog on a file item whose host has a client issues one post and
\* no other call, its body starting with "log cleaned by prophet - "; when
\* the post fails the operation is over and no call is issued in its place.
C22_CleanLogPostsOnce ==
    [][/\ \A sl \in Slots : \A logItem \in ViewItems :
             (/\ Acts(sl) /\ IsFree(sl) /\ MapHas(webdavClients, logItem.hostname)
              /\ CleanLog(sl, logItem))
                 => /\ ops'[sl].state = "pending"
                    /\ ops'[sl].op = "post"
                    /\ Head(ops'[sl].request.body) = "log cleaned by prophet - "
                    /\ InFlight(ops') = InFlight(ops) \cup {sl}
                    /\ \A other \in Slots \ {sl} : ops'[other] = ops[other]
       /\ \A sl \in Slots :
             (IsPending(sl, "post") /\ PostFails(sl))
                 => /\ ops'[sl].state = "done"
                    /\ InFlight(ops') = InFlight(ops) \ {sl}
                    /\ \A other \in Slots \ {sl} : ops'[other] = ops[other]]_vars

\* C22 witness: a post of cleanLog failed and left no call behind it, while
\* the post of another cleanLog for the same host is in flight with the
\* body that starts with the fixed text.
C22_Witness ==
    \E a, b \in Slots :
        /\ ops[a].state = "done"
        /\ ops[a].result.kind = "unhandledRejection"
        /\ ops[b].state = "pending"
        /\ ops[b].op = "post"
        /\ ops[b].hostname = ops[a].hostname
        /\ Head(ops[b].request.body) = "log cleaned by prophet - "

\* C23: the path cleanLog posts to holds no per-instance qualifier: what the
\* location of the file item holds of the form -blade<digits>-<digits>-appserver
\* is stripped from it.
C23_CleanLogPathHasNoQualifier ==
    [][\A logItem \in Items :
          (IsFree(1) /\ MapHas(webdavClients, logItem.hostname) /\ CleanLog(1, logItem))
              => /\ ops'[1].state = "pending"
                 /\ ops'[1].request.path = StripQualifier(ops'[1].request.path)
                 /\ ops'[1].request.path = StripQualifier(CleanLogPath(logItem.location))]_vars

\* C24: getChildren for a host that has a client issues one list call and
\* openLog one get call, and no other call; a list or a get that fails ends
\* its operation with the failure and no call is issued in its place.
C24_OneCallNoRetry ==
    [][/\ \A sl \in Slots : \A h \in Hostnames :
             (Acts(sl) /\ IsFree(sl) /\ MapHas(webdavClients, h) /\ GetChildren(sl, h))
                 => /\ ops'[sl].state = "pending" /\ ops'[sl].op = "list"
                    /\ InFlight(ops') = InFlight(ops) \cup {sl}
                    /\ \A other \in Slots \ {sl} : ops'[other] = ops[other]
       /\ \A sl \in Slots : \A logItem \in ViewItems :
             (/\ Acts(sl) /\ IsFree(sl) /\ MapHas(webdavClients, logItem.hostname)
              /\ OpenLog(sl, logItem))
                 => /\ ops'[sl].state = "pending" /\ ops'[sl].op = "get"
                    /\ InFlight(ops') = InFlight(ops) \cup {sl}
                    /\ \A other \in Slots \ {sl} : ops'[other] = ops[other]
       /\ \A sl \in Slots :
             ((IsPending(sl, "list") /\ ListFails(sl)) \/ (IsPending(sl, "get") /\ GetFails(sl)))
                 => /\ ops'[sl].state = "done"
                    /\ ops'[sl].result.kind \in {"rejected", "errorMessage"}
                    /\ InFlight(ops') = InFlight(ops) \ {sl}
                    /\ \A other \in Slots \ {sl} : ops'[other] = ops[other]]_vars

\* C24 witness: a list and a get for one registered host both failed and no
\* call is in flight.
C24_Witness ==
    \E a, b \in Slots :
        /\ ops[a].state = "done" /\ ops[a].result.kind = "rejected"
        /\ ops[b].state = "done" /\ ops[b].result.kind = "errorMessage"
        /\ ops[a].hostname = ops[b].hostname
        /\ MapHas(webdavClients, ops[a].hostname)
        /\ InFlight(ops) = {}

\* what openLog shows for the sample text with the root /Sites/Logs
SampleContent(scheme) ==
    <<"\n", "\n", "[", "ago", "1", "/", "date", "1", "]", "\n",
      "hello", "\n", "world", "\n", "\t", "at", " ">>
        \o scheme
        \o <<"/Sites/Logs", "/", "app", "/", "controllers", "/", "Foo.js", "#", "12",
             " ", "(", "native", ")">>

\* C25: the text openLog shows is the text fetched with the timestamps
\* replaced first, the stack frames rewritten onto the root of the client
\* second and the double blanks replaced by line feeds last; so no double
\* blank is left, a timestamp with two more blanks behind it gives its block
\* and one line feed, and
\* the sample text gives a block with the relative time, a line feed for
\* the double blank and a frame on /Sites/Logs/app/controllers/Foo.js, line 12.
C25_OpenLogRewritesInOrder ==
    [][(IsPending(1, "get") /\ ops'[1].state = "done" /\ ops'[1].result.kind = "document")
          => \A filedata \in {ops'[1].result.filedata} :
             \A content \in {ops'[1].result.content} :
             \A root \in {ops[1].request.root} :
                /\ \E scheme \in UriSchemes :
                   \E stamped \in {ReplaceTimestamps(filedata)} :
                   \E linked \in {ReplaceFrames(stamped, root, scheme)} :
                      content = ReplaceDoubleSpaces(linked)
                /\ \A k \in 1 .. Len(content) - 1 : ~(content[k] = " " /\ content[k + 1] = " ")
                /\ filedata = Timestamp \o DoubleSpace \o Word
                      => content = <<"\n", "\n", "[", "ago", "1", "/", "date", "1", "]", "\n",
                                     "\n", "hello">>
                /\ (filedata = SampleText /\ root = "/Sites/Logs")
                      => \E scheme \in UriSchemes : content = SampleContent(scheme)]_vars

\* C25 witness: openLog showed the sample text rewritten, the frame being a
\* file reference.
C25_Witness ==
    /\ ops[1].state = "done"
    /\ ops[1].result.kind = "document"
    /\ ops[1].result.filedata = SampleText
    /\ ops[1].result.content = SampleContent(<<"file://">>)

\* a listing of one response was answered in this step
NameParsed ==
    /\ IsPending(1, "list")
    /\ ops'[1].state = "done"
    /\ ops'[1].result.kind = "nodes"
    /\ Len(ops'[1].result.data) = 1

\* C26: a displayname made of a base, a qualifier with one or two digits in
\* each position in any letter case, and .log gives the file name base.log,
\* so the entries of one log from different instances have one file name.
C26_QualifierIsStripped ==
    [][NameParsed
          => \A displayname \in {ops'[1].result.data[1].displayname} :
             \A base \in Bases : \A q \in Qualifiers(1 .. 2) :
                displayname = base \o q \o DotLog
                    => /\ Len(ops'[1].result.statuses) = 1
                       /\ ops'[1].result.statuses[1].filename = base \o DotLog]_vars

\* C26 witness: the displayname e-BLADE07-7-APPSERVER.log was parsed to the
\* file name e.log.
C26_Witness ==
    /\ ops[1].state = "done"
    /\ ops[1].result.kind = "nodes"
    /\ Len(ops[1].result.data) = 1
    /\ ops[1].result.data[1].displayname =
          <<"e", "-", "B", "L", "A", "D", "E", "0", "7", "-", "7",
            "-", "A", "P", "P", "S", "E", "R", "V", "E", "R">> \o DotLog
    /\ ops[1].result.statuses[1].filename = <<"e">> \o DotLog

\* the displayname holds a qualifier with one or two digits in each position
HoldsQualifier(displayname) ==
    \E q \in Qualifiers(1 .. 2) : IndexOf(displayname, q) # 0

\* C27: a displayname that holds no qualifier with one or two digits in each
\* position, one with a qualifier without digits in a position included, is
\* the file name as it is.
C27_OnlyFullQualifiersAreStripped ==
    [][NameParsed
          => \A displayname \in {ops'[1].result.data[1].displayname} :
                ~HoldsQualifier(displayname)
                    => ops'[1].result.statuses[1].filename = displayname]_vars

\* the response has a displayname whose last four characters are .log
NamedLog(response) ==
    /\ response.displayname # Undefined
    /\ Len(response.displayname) >= 4
    /\ \A k \in 1 .. 4 :
          response.displayname[Len(response.displayname) - 4 + k] = <<".", "l", "o", "g">>[k]
\* a getChildren call has the items of a listing
ListingParsed(sl) == ops[sl].state = "done" /\ ops[sl].result.kind = "nodes"

\* C28: the parser gives one descriptor for each response whose displayname
\* ends with .log, in the order of the listing, and none for any other; the
\* empty listing and a listing without such a response give no descriptor.
C28_ParserKeepsLogEntriesInOrder ==
    \A sl \in Slots :
        ListingParsed(sl)
            => \A data \in {ops[sl].result.data} :
               \A parsed \in {ParseResponse(data)} :
               \A kept \in {SelectSeq(data, NamedLog)} :
                  /\ Len(parsed) = Len(kept)
                  /\ \A k \in DOMAIN kept :
                        /\ EndsWith(parsed[k].filename, DotLog)
                        /\ parsed[k].filePath = StringOf(kept[k].href)
                        /\ parsed[k].lastmodifed = DateOf(StringOf(kept[k].getlastmodified))
                  /\ (\A i \in DOMAIN data : ~NamedLog(data[i])) => parsed = <<>>
                  /\ Len(ops[sl].result.statuses) <= Len(parsed)

\* C28 witness: the listing of a text file, error.log and a folder gave the
\* one item of error.log.
C28_Witness ==
    /\ ListingParsed(1)
    /\ ops[1].result.data = <<AccessTxt, ErrorLog, Folder>>
    /\ Len(ops[1].result.statuses) = 1
    /\ ops[1].result.statuses[1].filename = Text_error \o DotLog

\* C29: a response without href or without displayname gives no descriptor:
\* the parser gives one descriptor for each response that has an href and a
\* displayname ending with .log, and no other.
C29_EntriesWithoutHrefAreDropped ==
    \A sl \in Slots :
        ListingParsed(sl)
            => \A data \in {ops[sl].result.data} :
                  Len(ParseResponse(data))
                      = Cardinality({i \in DOMAIN data :
                                        NamedLog(data[i]) /\ data[i].href # Undefined})

\* C30: the descriptor of a response without getcontentlength, or with one
\* that is no number, has the size 0, and the one of a response without
\* getlastmodified, or with one that is no date, has an invalid time; the
\* response is kept all the same.
C30_MissingSizeIsZero ==
    \A sl \in Slots :
        ListingParsed(sl)
            => \A data \in {ops[sl].result.data} :
               \A parsed \in {ParseResponse(data)} :
               \A kept \in {SelectSeq(data, NamedLog)} :
                  /\ Len(parsed) = Len(kept)
                  /\ \A k \in DOMAIN kept :
                        /\ (\/ kept[k].getcontentlength = Undefined
                            \/ \E c \in DOMAIN kept[k].getcontentlength :
                                  kept[k].getcontentlength[c] \notin Digits)
                              => parsed[k].length = [nan |-> FALSE, n |-> 0]
                        /\ kept[k].getlastmodified \notin {<<"day1">>, <<"day2">>, <<"day3">>}
                              => ~parsed[k].lastmodifed.valid

\* the keywords in their order of priority, and the names that hold one
Keyword(k) ==
    << <<"f", "a", "t", "a", "l">>, <<"e", "r", "r", "o", "r">>, <<"w", "a", "r", "n">>,
       <<"i", "n", "f", "o">>, <<"d", "e", "b", "u", "g">> >>[k]
Holds(name, k) == IndexOf(name, Keyword(k)) # 0

\* C31: the icon of an item is the first of fatal, error, warn, info, debug,
\* in this order, that its name holds with the same letter case, and log
\* when its name holds none of them.
C31_IconIsFirstKeyword ==
    \A sl \in Slots :
        ListingParsed(sl)
            => \A nodes \in {ops[sl].result.nodes} :
               \A i \in DOMAIN nodes :
                  /\ \A k \in 1 .. 5 :
                        nodes[i].iconType = Keyword(k)
                            <=> (Holds(nodes[i].name, k)
                                    /\ \A j \in 1 .. k - 1 : ~Holds(nodes[i].name, j))
                  /\ nodes[i].iconType = <<"l", "o", "g">>
                        <=> \A k \in 1 .. 5 : ~Holds(nodes[i].name, k)

\* C31 witness: the item of debugErrorfatal.log, whose name holds debug
\* before fatal and error only with a capital, has the icon fatal.
C31_Witness ==
    /\ ListingParsed(1)
    /\ Len(ops[1].result.nodes) = 1
    /\ ops[1].result.nodes[1].name = Keyword(5) \o <<"E", "r", "r", "o", "r">> \o Keyword(1) \o DotLog
    /\ ops[1].result.nodes[1].iconType = Keyword(1)

\* p is what h holds before its first dot (all of h when it holds none)
IsFirstLabel(p, h) ==
    /\ Len(p) <= Len(h)
    /\ \A i \in DOMAIN p : p[i] = h[i] /\ p[i] # "."
    /\ Len(p) = Len(h) \/ h[Len(p) + 1] = "."

\* C32: the host item of a registered client is named by what its hostname
\* holds before the first dot, or noName when that is empty; its hostname
\* (and its location) is the whole hostname of the client, which is its key
\* in the registry.
C32_HostItemName ==
    \A sl \in Slots :
        (ops[sl].state = "done" /\ ops[sl].result.kind = "hosts")
            => \A nodes \in {ops[sl].result.nodes} :
               \A e \in DOMAIN nodes :
                  /\ nodes[e].hostname = e.client.config.hostname
                  /\ nodes[e].hostname = e.key
                  /\ nodes[e].location = e.key
                  /\ IF IsFirstLabel(<<>>, e.key)
                     THEN nodes[e].name = <<"n", "o", "N", "a", "m", "e">>
                     ELSE IsFirstLabel(nodes[e].name, e.key)

\* C32 witness: the root items of a registry with .h, a.b.c and h are named
\* noName, a and h.
C32_Witness ==
    /\ ops[1].state = "done" /\ ops[1].result.kind = "hosts"
    /\ Cardinality(DOMAIN ops[1].result.nodes) = 3
    /\ \E e \in DOMAIN ops[1].result.nodes :
          e.key = <<".", "h">> /\ ops[1].result.nodes[e].name = <<"n", "o", "N", "a", "m", "e">>
    /\ \E e \in DOMAIN ops[1].result.nodes :
          e.key = <<"a", ".", "b", ".", "c">> /\ ops[1].result.nodes[e].name = <<"a">>
    /\ \E e \in DOMAIN ops[1].result.nodes :
          e.key = <<"h">> /\ ops[1].result.nodes[e].name = <<"h">>

\* C33: every hostname of the registry is the hostname of a subscription that
\* is still open: no client stays registered once every subscription that
\* resolved to its hostname was torn down.
C33_RegisteredHasOpenSubscription ==
    \A h \in MapKeys(webdavClients) : \E s \in Sources : h \in OpenHosts(s)

\* C33 witness: h is registered for a subscribed source after another source
\* that had resolved to h ended, and a second hostname left the registry.
C33_Witness ==
    \E h \in Hostnames : \E a, b \in Sources :
        /\ a # b
        /\ MapHas(webdavClients, h)
        /\ h \in OpenHosts(a)
        /\ source[b] = "ended"
        /\ h \in ResolvedHosts(b)
        /\ \E h2 \in ResolvedHosts(b) : ~MapHas(webdavClients, h2)

\* the hostnames that entered or left the registry in the step
KeysChanged ==
    (MapKeys(webdavClients') \ MapKeys(webdavClients))
        \cup (MapKeys(webdavClients) \ MapKeys(webdavClients'))

\* C34: a step of a configuration chain notifies one refresh for each
\* hostname that enters or leaves the registry and none otherwise: a
\* resolution to a registered hostname notifies nothing, a teardown for a
\* hostname that is not registered notifies nothing, and the notifications of
\* one step are not merged.
C34_RefreshPerRegistryChange ==
    [][/\ last'.op \in {"resolve", "end", "fail", "outerComplete"}
             => fired' = Cardinality(KeysChanged)
       /\ \A s \in Sources : \A d \in DavOptions :
             (ConfigResolved(s, d) /\ MapHas(webdavClients, d.hostname))
                 => fired' = 0 /\ webdavClients' = webdavClients
       /\ \A s \in Sources :
             (SourceEnds(s) /\ OpenHosts(s) \cap MapKeys(webdavClients) = {})
                 => fired' = 0 /\ webdavClients' = webdavClients]_vars

\* C34 witness: a source that had resolved three times, twice to the same
\* hostname, has just ended; both hostnames left the registry and two
\* refreshes were notified.
C34_Witness ==
    /\ last.op = "end"
    /\ Len(inner[last.src]) = 3
    /\ Cardinality(ResolvedHosts(last.src)) = 2
    /\ webdavClients = {}
    /\ fired = 2

\* C35: the end of a source cancels its readConfigFile calls in flight, and
\* no client constructed for a source that ended enters the registry.
C35_EndCancelsPendingResolution ==
    [][\A s \in Sources :
          /\ SourceEnds(s) => reading'[s] = 0
          /\ source[s] = "ended"
                => /\ reading'[s] = 0
                   /\ inner'[s] = inner[s]
                   /\ {e \in webdavClients' : e.client.origin.src = s} \subseteq webdavClients]_vars

\* C35 witness: the first source announced a configuration file and ended
\* before the file was read; the second source appeared afterwards and its
\* client is the only one registered.
C35_Witness ==
    /\ source[1] = "ended"
    /\ inner[1] = <<>>
    /\ emitted = 2
    /\ reading = [s \in Sources |-> 0]
    /\ Len(inner[2]) = 1
    /\ \A e \in webdavClients : e.client.origin.src = 2
    /\ webdavClients # {}

\* C38: a filter box that is dismissed leaves the filter as it is and
\* notifies no refresh.
C38_DismissedFilterBoxChangesNothing ==
    [][ShowFilterBox(Undefined)
          => /\ logsFileNameFilter' = logsFileNameFilter
             /\ fired' = 0
             /\ UNCHANGED <<outer, source, emitted, reading, inner, webdavClients, ops>>]_vars

\* C38 witness: the filter box was just dismissed while the filter was error.
C38_Witness ==
    /\ last.op = "filterDismissed"
    /\ logsFileNameFilter = Text_error
    /\ fired = 0
    /\ webdavClients # {}

\* the responses of a listing that getChildren keeps under the filter
Retained(data, filter) ==
    {i \in DOMAIN data :
        /\ NamedLog(data[i])
        /\ filter = <<>> \/ IndexOf(StripQualifier(data[i].displayname), filter) # 0}

\* C37: getChildren gives one file item for each descriptor it keeps, with
\* the file name and the path of that descriptor and the hostname of the
\* call, and merges none: the listing error.log at /e and
\* error-blade1-2-appserver.log at /b gives two items named error.log of the
\* same host, one at /e and one at /b.
C37_OneItemPerDescriptor ==
    \A sl \in Slots :
        ListingParsed(sl)
            => \A r \in {ops[sl].result} :
                  /\ Len(r.nodes) = Cardinality(Retained(r.data, logsFileNameFilter))
                  /\ Len(r.nodes) = Len(r.statuses)
                  /\ \A i \in DOMAIN r.nodes :
                        /\ r.nodes[i].type = "file"
                        /\ r.nodes[i].hostname = ops[sl].hostname
                        /\ r.nodes[i].name = r.statuses[i].filename
                        /\ r.nodes[i].location = r.statuses[i].filePath
                  /\ (r.data = <<ErrorLog, BladeLog>> /\ logsFileNameFilter \in {<<>>, Text_error})
                        => /\ Len(r.nodes) = 2
                           /\ r.nodes[1].name = r.nodes[2].name
                           /\ r.nodes[1].hostname = r.nodes[2].hostname
                           /\ {r.nodes[1].location, r.nodes[2].location}
                                 = {<<"/", "e">>, <<"/", "b">>}

\* C37 witness: under the filter error the listing of error.log and
\* error-blade1-2-appserver.log gave two items named error.log with the paths
\* /b and /e.
C37_Witness ==
    /\ ListingParsed(1)
    /\ logsFileNameFilter = Text_error
    /\ ops[1].result.data = <<ErrorLog, BladeLog>>
    /\ Len(ops[1].result.nodes) = 2
    /\ ops[1].result.nodes[1].name = Text_error \o DotLog
    /\ ops[1].result.nodes[2].name = Text_error \o DotLog
    /\ ops[1].result.nodes[1].location = <<"/", "b">>
    /\ ops[1].result.nodes[2].location = <<"/", "e">>

\* C36: the items of getChildren are those the filter of the time of the
\* answer keeps, whatever the filter was when the call was made: with the
\* filter box answered between the call and the answer, the listing
\* error.log, access.log, error2.log gives error.log and error2.log when the
\* answer was error, and all three when the answer was the empty text.
C36_FilterOfTheAnswerTime ==
    [][\A data \in FilterListings :
          (IsPending(1, "list") /\ ListResponds(1, data))
              => \A r \in {ops'[1].result} :
                    /\ Len(r.statuses) = Cardinality(Retained(data, logsFileNameFilter))
                    /\ FilenamesOf(r.statuses)
                          = {StripQualifier(data[i].displayname) :
                                i \in Retained(data, logsFileNameFilter)}
                    /\ (/\ data = <<ErrorLog, AccessLog, Error2Log>>
                        /\ ops[1].request.filter = <<>>
                        /\ logsFileNameFilter = Text_error)
                          => Len(r.nodes) = 2
                    /\ (/\ data = <<ErrorLog, AccessLog, Error2Log>>
                        /\ ops[1].request.filter = Text_error
                        /\ logsFileNameFilter = <<>>)
                          => Len(r.nodes) = 3]_vars

\* C36 witness: a listing asked for under the empty filter was answered
\* after the filter box was answered with error, and gave error.log and
\* error2.log only.
C36_Witness ==
    /\ ListingParsed(1)
    /\ last.op = "view"
    /\ ops[1].result.asked = <<>>
    /\ logsFileNameFilter = Text_error
    /\ ops[1].result.data = <<ErrorLog, AccessLog, Error2Log>>
    /\ FilenamesOf(ops[1].result.statuses) = {Text_error \o DotLog, Text_error \o <<"2">> \o DotLog}

\* C39: the promise of observable2promise settles once.  The first value of
\* the stream resolves it with that value (for getChildren, the items made of
\* it), an error or a completion before any value rejects it, and whatever
\* the stream does afterwards (more values, an error, its completion)
\* leaves the settled promise as it is.
C39_PromiseSettlesOnce ==
    [][/\ (IsPending(1, "list") /\ ops'[1].state = "done" /\ ops'[1].result.kind = "nodes")
             => \A r \in {ops'[1].result} :
                   /\ r.data \in Listings
                   /\ \E sorted \in SortOutcomes(FilterStatuses(ParseResponse(r.data),
                                                                logsFileNameFilter)) :
                         r.nodes = FileItems(sorted, ops[1].hostname)
       /\ (IsPending(1, "list") /\ (ListFails(1) \/ ListCompletesEmpty(1)))
             => ops'[1] = Done("getChildren", ops[1].hostname, [kind |-> "rejected"])
       /\ IsPending(1, "list")
             => /\ ENABLED ListFails(1)
                /\ ENABLED ListCompletesEmpty(1)
                /\ last'.op # "late"
       /\ (ops[1].state = "done" /\ last'.op = "late")
             => /\ ops'[1].state = "done"
                /\ ops'[1].hostname = ops[1].hostname
                /\ ops'[1].result.kind = ops[1].result.kind
                /\ ops'[1].result.nodes = ops[1].result.nodes
                /\ ops'[1].result.data = ops[1].result.data
                /\ ops'[1].result.live = (last'.event = "next")
       /\ (ops[1].state = "done" /\ ops[1].result.kind = "rejected")
             => (ops'[1] = ops[1] \/ last'.op = "view")]_vars

\* C39 witness: the listing of error.log and access.log resolved the promise
\* of getChildren with two items; the stream then failed, and the promise
\* still holds the two items.
C39_Witness ==
    /\ ListingParsed(1)
    /\ last = [op |-> "late", event |-> "error"]
    /\ ~ops[1].result.live
    /\ ops[1].result.data = <<ErrorLog, AccessLog>>
    /\ Len(ops[1].result.nodes) = 2

====
